---- MODULE Spec2Model ----
(***************************************************************************)
(* Model of src/lib/imageMetadata.ts: the sidecar metadata loader with its *)
(* process-wide cache (loadImageMetadata), the exposure formatter          *)
(* (formatExposureData) and the collection JSON-LD builder                 *)
(* (generateCollectionSchema).                                             *)
(*                                                                         *)
(* Spec            the loader: concurrent loadImageMetadata calls, each    *)
(*                 suspended at its two awaits (fetch, response.json)      *)
(* SpecCollection  generateCollectionSchema applied to bounded URL lists   *)
(* SpecFormat      formatExposureData applied to bounded metadata records  *)
(***************************************************************************)
EXTENDS Integers, Sequences, FiniteSets, TLC

VARIABLES
    metadataCache,  \* the module-level Map<string, ImageMetadata>, as a function
    calls,          \* every loadImageMetadata call made so far, in call order
    requests,       \* the URLs handed to fetch, in order of issue
    served,         \* per URL, the body text the (immutable) resource holds
    imageUrls,      \* generateCollectionSchema: the imageUrls argument
    schema,         \* generateCollectionSchema: the returned object
    metadata,       \* formatExposureData: the metadata argument
    parts           \* formatExposureData: the returned mapping

vars == <<metadataCache, calls, requests, served, imageUrls, schema, metadata, parts>>

loaderVars == <<metadataCache, calls, requests, served>>
collectionVars == <<imageUrls, schema>>
formatVars == <<metadata, parts>>

(***************************************************************************)
(* Bounds                                                                  *)
(***************************************************************************)
MaxCalls == 3

Stems == {"R0012128", "R0012129"}
Bases == {"/metadata", "/archive"}

(***************************************************************************)
(* JSON values as the loader sees them: a kind and the JSON text.          *)
(***************************************************************************)
JsonValue(kind, text) == [kind |-> kind, text |-> text]

Null == JsonValue("null", "null")
Pending == JsonValue("pending", "")

\* Body texts a sidecar URL can hold; "{" is not JSON.
BodyTexts == {"{\"iso\":100}", "{\"iso\":200}", "null", "0", "{"}
Unread == "unread"

\* Whether response.json() resolves on this body text.
ParseOk(text) == text # "{"

\* What response.json() resolves to.
JsonParse(text) ==
    CASE text = "null" -> Null
      [] text = "0" -> JsonValue("number", "0")
      [] OTHER -> JsonValue("object", text)

\* JavaScript truthiness of a parsed JSON value.
Truthy(v) ==
    CASE v.kind = "null" -> FALSE
      [] v.kind = "number" -> v.text # "0"
      [] v.kind = "string" -> v.text # ""
      [] v.kind = "boolean" -> v.text # "false"
      [] OTHER -> TRUE

\* a || b
Or(a, b) == IF Truthy(a) THEN a ELSE b

\* `${baseUrl}/${imageStem}-metadata.json`
Url(baseUrl, imageStem) == baseUrl \o "/" \o imageStem \o "-metadata.json"

Urls == {Url(b, s) : b \in Bases, s \in Stems}

\* metadataCache.has(imageStem)
CacheHas(imageStem) == imageStem \in DOMAIN metadataCache

\* metadataCache.get(imageStem) || null
CacheGetOrNull(imageStem) == Or(metadataCache[imageStem], Null)

\* metadataCache.set(imageStem, value)
CacheSet(imageStem, value) ==
    [s \in DOMAIN metadataCache \cup {imageStem} |->
        IF s = imageStem THEN value ELSE metadataCache[s]]

\* A failure that escapes the function: the returned promise rejects.
Rethrow(error) == [result |-> Pending, raised |-> TRUE]

\* catch (error) { console.error(...); return null; }
Catch(error) == [result |-> Null, raised |-> FALSE]

\* return value
Return(value) == [result |-> value, raised |-> FALSE]

SetCall(c, pc, outcome, end) ==
    [calls EXCEPT ![c].pc = pc, ![c].outcome = outcome,
                  ![c].result = end.result, ![c].raised = end.raised]

(***************************************************************************)
(* loadImageMetadata, from entry to its first await or its early return.   *)
(***************************************************************************)
CallHit(imageStem, baseUrl) ==
    /\ Len(calls) < MaxCalls
    /\ CacheHas(imageStem)
    /\ calls' = Append(calls,
            [stem |-> imageStem, base |-> baseUrl, pc |-> "done", req |-> 0,
             outcome |-> "hit", result |-> CacheGetOrNull(imageStem),
             raised |-> FALSE])
    /\ UNCHANGED <<metadataCache, requests, served, collectionVars, formatVars>>

CallMiss(imageStem, baseUrl) ==
    /\ Len(calls) < MaxCalls
    /\ ~CacheHas(imageStem)
    /\ requests' = Append(requests, Url(baseUrl, imageStem))
    /\ calls' = Append(calls,
            [stem |-> imageStem, base |-> baseUrl, pc |-> "awaitFetch",
             req |-> Len(requests) + 1,
             outcome |-> "none", result |-> Pending, raised |-> FALSE])
    /\ UNCHANGED <<metadataCache, served, collectionVars, formatVars>>

\* fetch rejects (network fault): caught, null returned.
FetchReject(c) ==
    /\ c \in DOMAIN calls
    /\ calls[c].pc = "awaitFetch"
    /\ calls' = SetCall(c, "done", "netfault", Catch("fetch"))
    /\ UNCHANGED <<metadataCache, requests, served, collectionVars, formatVars>>

\* Variant of FetchNotOk that remembers the miss: null is cached under the stem.
FetchNotOk_NegativeCache(c) ==
    /\ c \in DOMAIN calls
    /\ calls[c].pc = "awaitFetch"
    /\ metadataCache' = CacheSet(calls[c].stem, Null)
    /\ calls' = SetCall(c, "done", "notok", Return(Null))
    /\ UNCHANGED <<requests, served, collectionVars, formatVars>>

\* fetch resolves with !response.ok: warn, return null.
FetchNotOk(c) ==
    /\ c \in DOMAIN calls
    /\ calls[c].pc = "awaitFetch"
    /\ calls' = SetCall(c, "done", "notok", Return(Null))
    /\ UNCHANGED <<metadataCache, requests, served, collectionVars, formatVars>>

\* fetch resolves with response.ok: response.json() is called and awaited.
FetchOk(c) ==
    /\ c \in DOMAIN calls
    /\ calls[c].pc = "awaitFetch"
    /\ calls' = [calls EXCEPT ![c].pc = "awaitJson"]
    /\ UNCHANGED <<metadataCache, requests, served, collectionVars, formatVars>>

\* The body the call's URL holds: fixed once read, any text before that.
BodyOf(c, text) ==
    /\ text \in BodyTexts
    /\ served[requests[calls[c].req]] \in {Unread, text}

\* response.json() resolves: the value is cached under the stem and returned.
JsonResolve(c, text) ==
    /\ c \in DOMAIN calls
    /\ calls[c].pc = "awaitJson"
    /\ BodyOf(c, text)
    /\ ParseOk(text)
    /\ served' = [served EXCEPT ![requests[calls[c].req]] = text]
    /\ metadataCache' = CacheSet(calls[c].stem, JsonParse(text))
    /\ calls' = SetCall(c, "done", "stored", Return(JsonParse(text)))
    /\ UNCHANGED <<requests, collectionVars, formatVars>>

\* response.json() rejects on a malformed body: caught, null returned.
JsonReject(c, text) ==
    /\ c \in DOMAIN calls
    /\ calls[c].pc = "awaitJson"
    /\ BodyOf(c, text)
    /\ ~ParseOk(text)
    /\ served' = [served EXCEPT ![requests[calls[c].req]] = text]
    /\ calls' = SetCall(c, "done", "parsefault", Catch("syntax"))
    /\ UNCHANGED <<metadataCache, requests, collectionVars, formatVars>>

\* response.json() rejects because the body stream fails: caught, null returned.
BodyFault(c) ==
    /\ c \in DOMAIN calls
    /\ calls[c].pc = "awaitJson"
    /\ calls' = SetCall(c, "done", "bodyfault", Catch("body"))
    /\ UNCHANGED <<metadataCache, requests, served, collectionVars, formatVars>>

(***************************************************************************)
(* generateCollectionSchema                                                *)
(***************************************************************************)
MaxUrls == 7
UrlPool == {"https://avm.photography/a.avif", "https://avm.photography/b.avif"}
CollectionNames == {"Street", "Tokyo"}

Min(a, b) == IF a < b THEN a ELSE b

\* Array.prototype.slice(start, end) for 0 <= start <= end
Slice(arr, start, end) == SubSeq(arr, start + 1, Min(end, Len(arr)))

\* The end index of imageUrls.slice(0, 5)
RepresentativeImages == 5

\* Variant of PhotoName that labels with the zero-based index.
PhotoName_ZeroBased(index) == "Photo " \o ToString(index)

\* `Photo ${index + 1}` for the zero-based index map passes
PhotoName(index) == "Photo " \o ToString(index + 1)

\* imageUrls.map((url, index) => ({ "@type": "ImageObject", url, name }))
AssociatedMedia(urls) ==
    [i \in 1..Len(urls) |->
        [type |-> "ImageObject", url |-> urls[i], name |-> PhotoName(i - 1)]]

generateCollectionSchema(collectionName, collectionDescription, urls, collectionUrl) ==
    [context |-> "https://schema.org/",
     type |-> "ImageGallery",
     name |-> collectionName,
     description |-> collectionDescription,
     url |-> collectionUrl,
     creator |-> [type |-> "Person", name |-> "Adrian Villanueva",
                  url |-> "https://avm.photography"],
     isPartOf |-> [type |-> "WebSite", name |-> "Adrian Villanueva Photography",
                   url |-> "https://avm.photography"],
     image |-> Slice(urls, 0, RepresentativeImages),
     associatedMedia |-> AssociatedMedia(urls)]

NoSchema == [type |-> "none"]

\* One call of generateCollectionSchema on the chosen arguments.
GenerateCollection(collectionName) ==
    /\ schema = NoSchema
    /\ schema' = generateCollectionSchema(collectionName, "A collection", imageUrls,
                                          "https://avm.photography/collections")
    /\ UNCHANGED <<imageUrls, loaderVars, formatVars>>

(***************************************************************************)
(* formatExposureData.  Field values carry their JavaScript type; a field  *)
(* that is not a key of the record reads as undefined.                     *)
(***************************************************************************)
Str(text) == [t |-> "string", s |-> text]
Num(n) == [t |-> "number", n |-> n]
Arr(a) == [t |-> "array", a |-> a]
Undefined == [t |-> "undefined"]
Absent == [t |-> "absent"]

\* metadata.<field>
Field(m, f) == IF f \in DOMAIN m THEN m[f] ELSE Undefined

\* Variant of IsTruthy that tests for presence only: metadata.<field> !== undefined
IsDefined(v) == v.t # "undefined"

\* JavaScript truthiness of a field value: if (metadata.<field>)
IsTruthy(v) ==
    CASE v.t = "undefined" -> FALSE
      [] v.t = "string" -> v.s # ""
      [] v.t = "number" -> v.n # 0
      [] OTHER -> TRUE

\* String.prototype.startsWith / endsWith
StartsWith(text, prefix) ==
    /\ Len(text) >= Len(prefix)
    /\ SubSeq(text, 1, Len(prefix)) = prefix

EndsWith(text, suffix) ==
    /\ Len(text) >= Len(suffix)
    /\ SubSeq(text, Len(text) - Len(suffix) + 1, Len(text)) = suffix

\* text.replace(/:/g, "-")
RECURSIVE ReplaceColons(_)
ReplaceColons(text) ==
    IF Len(text) = 0 THEN ""
    ELSE (IF SubSeq(text, 1, 1) = ":" THEN "-" ELSE SubSeq(text, 1, 1))
            \o ReplaceColons(SubSeq(text, 2, Len(text)))

\* text.split(" ")[0]
RECURSIVE BeforeSpace(_)
BeforeSpace(text) ==
    IF Len(text) = 0 \/ SubSeq(text, 1, 1) = " " THEN ""
    ELSE SubSeq(text, 1, 1) \o BeforeSpace(SubSeq(text, 2, Len(text)))

\* [make, model].filter(Boolean).join(" ")
JoinCamera(make, model) ==
    CASE IsTruthy(make) /\ IsTruthy(model) -> make.s \o " " \o model.s
      [] IsTruthy(make) -> make.s
      [] IsTruthy(model) -> model.s
      [] OTHER -> ""

\* Array.isArray(metadata.iso) ? metadata.iso[0] : metadata.iso
IsoValue(iso) ==
    IF iso.t = "array"
    THEN (IF Len(iso.a) >= 1 THEN Num(iso.a[1]) ELSE Undefined)
    ELSE iso

\* `${value}` of a number or of undefined
Interpolate(v) ==
    CASE v.t = "number" -> ToString(v.n)
      [] v.t = "string" -> v.s
      [] OTHER -> "undefined"

\* parts.<key> = value
Put(p, key, value) ==
    [k \in DOMAIN p \cup {key} |-> IF k = key THEN value ELSE p[k]]

EmptyParts == [k \in {} |-> ""]

formatExposureData(m) ==
    LET make == Field(m, "camera_make")
        model == Field(m, "camera_model")
        lens == Field(m, "lens")
        iso == Field(m, "iso")
        aperture == Field(m, "aperture")
        shutter == Field(m, "shutter_speed")
        focal == Field(m, "focal_length_35mm")
        date == Field(m, "date_taken")
        p0 == EmptyParts
        p1 == IF IsTruthy(make) \/ IsTruthy(model)
              THEN Put(p0, "camera", JoinCamera(make, model)) ELSE p0
        p2 == IF IsTruthy(lens) THEN Put(p1, "lens", lens.s) ELSE p1
        p3 == IF IsTruthy(iso)
              THEN Put(p2, "iso", "ISO " \o Interpolate(IsoValue(iso))) ELSE p2
        p4 == IF IsTruthy(aperture)
              THEN Put(p3, "aperture",
                       IF StartsWith(aperture.s, "f/") THEN aperture.s
                       ELSE "f/" \o aperture.s)
              ELSE p3
        p5 == IF IsTruthy(shutter)
              THEN Put(p4, "shutter",
                       IF StartsWith(shutter.s, "1/") THEN shutter.s
                       ELSE "1/" \o shutter.s)
              ELSE p4
        p6 == IF IsTruthy(focal)
              THEN Put(p5, "focal_length",
                       IF EndsWith(focal.s, "mm") THEN focal.s
                       ELSE focal.s \o "mm")
              ELSE p5
        p7 == IF IsTruthy(date)
              THEN Put(p6, "date", BeforeSpace(ReplaceColons(date.s))) ELSE p6
    IN p7

NoParts == [pending |-> "pending"]

\* One call of formatExposureData on the chosen record.
FormatExposure ==
    /\ parts = NoParts
    /\ parts' = formatExposureData(metadata)
    /\ UNCHANGED <<metadata, loaderVars, collectionVars>>

\* The values each field of an ImageMetadata record is drawn from.
MakeChoices == {Absent, Str(""), Str("Canon")}
ModelChoices == {Absent, Str(""), Str("EOS R5")}
LensChoices == {Absent, Str(""), Str("RF 35mm")}
IsoChoices == {Absent, Num(0), Num(3200), Arr(<<>>), Arr(<<100, 200, 400>>)}
ApertureChoices == {Absent, Str(""), Str("2.8"), Str("f/2.8")}
ShutterChoices == {Absent, Str("125"), Str("1/125")}
FocalChoices == {Absent, Str("35"), Str("35mm")}
DateChoices == {Absent, Str(""), Str("2024:01:15 05:43:33")}

\* The record holding exactly the chosen fields.
MakeMetadata(all) == [f \in {g \in DOMAIN all : all[g] # Absent} |-> all[f]]

InitLoader ==
    /\ metadataCache = <<>>
    /\ calls = <<>>
    /\ requests = <<>>
    /\ served = [u \in Urls |-> Unread]

InitCollectionIdle ==
    /\ imageUrls = <<>>
    /\ schema = NoSchema

InitFormatIdle ==
    /\ metadata = EmptyParts
    /\ parts = NoParts

Init == InitLoader /\ InitCollectionIdle /\ InitFormatIdle

Next ==
    \/ \E s \in Stems, b \in Bases : CallHit(s, b)
    \/ \E s \in Stems, b \in Bases : CallMiss(s, b)
    \/ \E c \in 1..MaxCalls : FetchReject(c)
    \/ \E c \in 1..MaxCalls : FetchNotOk(c)
    \/ \E c \in 1..MaxCalls : FetchOk(c)
    \/ \E c \in 1..MaxCalls, t \in BodyTexts : JsonResolve(c, t)
    \/ \E c \in 1..MaxCalls, t \in BodyTexts : JsonReject(c, t)
    \/ \E c \in 1..MaxCalls : BodyFault(c)

Spec == Init /\ [][Next]_vars

UrlLists == UNION {[1..n -> UrlPool] : n \in 0..MaxUrls}

InitCollection ==
    /\ InitLoader
    /\ InitFormatIdle
    /\ imageUrls \in UrlLists
    /\ schema = NoSchema

NextCollection == \E n \in CollectionNames : GenerateCollection(n)

SpecCollection == InitCollection /\ [][NextCollection]_vars

InitFormat ==
    /\ InitLoader
    /\ InitCollectionIdle
    /\ parts = NoParts
    /\ \E cm \in MakeChoices, cmo \in ModelChoices, l \in LensChoices, i \in IsoChoices,
          a \in ApertureChoices, ss \in ShutterChoices, fl \in FocalChoices,
          d \in DateChoices :
            metadata = MakeMetadata(
                [camera_make |-> cm, camera_model |-> cmo, lens |-> l, iso |-> i,
                 aperture |-> a, shutter_speed |-> ss, focal_length_35mm |-> fl,
                 date_taken |-> d])

NextFormat == FormatExposure

SpecFormat == InitFormat /\ [][NextFormat]_vars

\* The formatting examples of the exposure formatter, as sanity checks.
ExampleFull ==
    formatExposureData(
        [camera_make |-> Str("Canon"), camera_model |-> Str("EOS R5"), iso |-> Num(3200),
         aperture |-> Str("2.8"), shutter_speed |-> Str("125"),
         focal_length_35mm |-> Str("35"), date_taken |-> Str("2024:01:15 05:43:33")])
    = [camera |-> "Canon EOS R5", iso |-> "ISO 3200", aperture |-> "f/2.8",
       shutter |-> "1/125", focal_length |-> "35mm", date |-> "2024-01-15"]

ExampleIsoList ==
    formatExposureData([iso |-> Arr(<<100, 200, 400>>)]) = [iso |-> "ISO 100"]

(***************************************************************************)
(* Properties of the loader (Spec)                                         *)
(***************************************************************************)
\* The calls a step starts.
Started == DOMAIN calls' \ DOMAIN calls

\* How many fetches have been issued for a stem, under any base.
RequestsFor(reqs, imageStem) ==
    Cardinality({k \in DOMAIN reqs : reqs[k] \in {Url(b, imageStem) : b \in Bases}})

FaultOutcomes == {"netfault", "parsefault", "bodyfault"}

\* C1: a call for a stem that is a key of the cache returns the value the cache
\* holds for that stem, whatever the baseUrl, and issues no request.
C1_HitReturnsCachedValue ==
    [][\A c \in Started :
        calls'[c].stem \in DOMAIN metadataCache =>
            /\ calls'[c].pc = "done"
            /\ calls'[c].result = metadataCache[calls'[c].stem]
            /\ requests' = requests]_vars

\* C2: when the fetch of a call resolves with a non-success status the call
\* returns null without raising and the step leaves the cache as it was; the
\* step that issued the fetch left the cache as it was too.
C2_NotOkReturnsNullCacheUnchanged ==
    [][/\ \A c \in DOMAIN calls :
            (calls[c].pc = "awaitFetch" /\ calls'[c].outcome = "notok") =>
                /\ calls'[c].pc = "done"
                /\ calls'[c].result = Null
                /\ ~calls'[c].raised
                /\ metadataCache' = metadataCache
       /\ \A c \in Started :
            calls'[c].pc = "awaitFetch" => metadataCache' = metadataCache]_vars

C2_Witness ==
    \E c \in DOMAIN calls :
        /\ calls[c].outcome = "notok"
        /\ calls[c].pc = "done"
        /\ calls[c].req # 0

\* C3: when the request fails or the body of a successful response fails to
\* parse, the call returns null, raises nothing, and the step leaves the cache
\* as it was.
C3_FaultReturnsNullCacheUnchanged ==
    [][\A c \in DOMAIN calls :
        (calls[c].outcome = "none" /\ calls'[c].outcome \in FaultOutcomes) =>
            /\ calls'[c].pc = "done"
            /\ calls'[c].result = Null
            /\ ~calls'[c].raised
            /\ metadataCache' = metadataCache]_vars

C3_Witness ==
    /\ \E c \in DOMAIN calls : calls[c].outcome = "netfault" /\ calls[c].pc = "done"
    /\ \E c \in DOMAIN calls :
        /\ calls[c].outcome = "parsefault"
        /\ calls[c].pc = "done"
        /\ ~ParseOk(served[requests[calls[c].req]])

\* C4: when a stem is requested a second time after its first and only call has
\* completed successfully, the second call issues no request (one request in
\* total for the stem) and returns what the first call returned.
C4_SecondCallReusesFirst ==
    [][\A c \in Started : \A i \in DOMAIN calls :
        ( /\ calls[i].stem = calls'[c].stem
          /\ calls[i].outcome = "stored"
          /\ \A j \in DOMAIN calls : calls[j].stem = calls'[c].stem => j = i ) =>
            /\ requests' = requests
            /\ RequestsFor(requests', calls'[c].stem) = 1
            /\ calls'[c].pc = "done"
            /\ calls'[c].result = calls[i].result]_vars

\* C5: once the cache holds an entry for a stem, every later state holds an
\* entry for that stem with the same value.
C5_EntriesNeverChange ==
    [][\A s \in DOMAIN metadataCache :
        /\ s \in DOMAIN metadataCache'
        /\ metadataCache'[s] = metadataCache[s]]_vars

\* C6: a call for a stem of which no earlier call has returned a record (every
\* completed earlier call for it ended in absence) issues a new fetch to
\* {baseUrl}/{stem}-metadata.json.
C6_FailedRetrievalRefetched ==
    [][\A c \in Started :
        (\A i \in DOMAIN calls :
            (calls[i].stem = calls'[c].stem /\ calls[i].pc = "done")
                => calls[i].result = Null) =>
            /\ calls'[c].req = Len(requests')
            /\ requests' = Append(requests, Url(calls'[c].base, calls'[c].stem))]_vars

\* C7: two calls for the same stem that both passed the cache check each have
\* a fetch of their own, and a cache write for a stem that already has an
\* entry leaves the cache as the earlier write left it.
C7_ConcurrentWritesIdempotent ==
    [][/\ \A i, j \in DOMAIN calls :
            (i # j /\ calls[i].stem = calls[j].stem
                /\ calls[i].req # 0 /\ calls[j].req # 0) =>
                calls[i].req # calls[j].req
       /\ \A c \in DOMAIN calls :
            ( /\ calls[c].outcome = "none"
              /\ calls'[c].outcome = "stored"
              /\ calls[c].stem \in DOMAIN metadataCache ) =>
                metadataCache' = metadataCache]_vars

\* C10: every value the cache holds is a metadata record (never absence), a
\* call that hits the cache never returns absence, and a call that returns
\* absence wrote no cache entry.
C10_CacheHoldsOnlyRecords ==
    /\ \A s \in DOMAIN metadataCache : metadataCache[s].kind = "object"
    /\ \A c \in DOMAIN calls :
        /\ calls[c].outcome = "hit" => calls[c].result # Null
        /\ (calls[c].pc = "done" /\ calls[c].result = Null)
                => calls[c].outcome # "stored"

(***************************************************************************)
(* Properties of generateCollectionSchema (SpecCollection)                 *)
(***************************************************************************)
PhotoLabels ==
    <<"Photo 1", "Photo 2", "Photo 3", "Photo 4", "Photo 5",
      "Photo 6", "Photo 7", "Photo 8", "Photo 9", "Photo 10">>

\* C8: for n image URLs the image field is the first min(n, 5) URLs in input
\* order and associatedMedia has n entries, entry i carrying the i-th URL and
\* the name "Photo i".
C8_CollectionImagesAndMedia ==
    schema # NoSchema =>
        /\ Len(schema.image) = Min(Len(imageUrls), 5)
        /\ \A i \in 1..Len(schema.image) : schema.image[i] = imageUrls[i]
        /\ Len(schema.associatedMedia) = Len(imageUrls)
        /\ \A i \in 1..Len(imageUrls) :
            /\ schema.associatedMedia[i].url = imageUrls[i]
            /\ schema.associatedMedia[i].name = PhotoLabels[i]

C8_Witness ==
    /\ schema # NoSchema
    /\ Len(imageUrls) = 7
    /\ Len(schema.image) = 5
    /\ imageUrls[1] # imageUrls[2]

(***************************************************************************)
(* Properties of formatExposureData (SpecFormat)                           *)
(***************************************************************************)
Present(f) == f \in DOMAIN metadata

\* The field is present and is not the empty string.
Filled(f) == Present(f) /\ metadata[f] # Str("")

\* The text the iso key carries for a number or a non-empty sequence.
IsoText ==
    IF metadata["iso"].t = "array"
    THEN (IF metadata["iso"].a = <<>> THEN "ISO undefined"
          ELSE "ISO " \o ToString(Head(metadata["iso"].a)))
    ELSE "ISO " \o ToString(metadata["iso"].n)

\* C9: the output has a key for a field exactly when the field is present in
\* the input (camera when camera_make or camera_model is present; iso as
\* "ISO " followed by the number or by the first element of the sequence),
\* and an empty record yields an empty mapping.
C9_KeyIffFieldPresent ==
    parts # NoParts =>
        /\ "camera" \in DOMAIN parts <=> (Present("camera_make") \/ Present("camera_model"))
        /\ "lens" \in DOMAIN parts <=> Present("lens")
        /\ "iso" \in DOMAIN parts <=> Present("iso")
        /\ "aperture" \in DOMAIN parts <=> Present("aperture")
        /\ "shutter" \in DOMAIN parts <=> Present("shutter_speed")
        /\ "focal_length" \in DOMAIN parts <=> Present("focal_length_35mm")
        /\ "date" \in DOMAIN parts <=> Present("date_taken")
        /\ (Present("iso") /\ metadata["iso"] # Arr(<<>>)) =>
                ("iso" \in DOMAIN parts /\ parts["iso"] = IsoText)
        /\ DOMAIN metadata = {} => DOMAIN parts = {}

\* C9 as amended: the output has a key for a field exactly when the field is
\* present with a truthy value (a non-empty string; for iso a non-zero number
\* or any sequence); iso is "ISO " followed by the number or by the first
\* element of the sequence, "ISO undefined" for an empty sequence; an empty
\* record yields an empty mapping.
C9_KeyIffFieldTruthy ==
    parts # NoParts =>
        /\ "camera" \in DOMAIN parts <=> (Filled("camera_make") \/ Filled("camera_model"))
        /\ "lens" \in DOMAIN parts <=> Filled("lens")
        /\ "iso" \in DOMAIN parts <=> (Present("iso") /\ metadata["iso"] # Num(0))
        /\ "aperture" \in DOMAIN parts <=> Filled("aperture")
        /\ "shutter" \in DOMAIN parts <=> Filled("shutter_speed")
        /\ "focal_length" \in DOMAIN parts <=> Filled("focal_length_35mm")
        /\ "date" \in DOMAIN parts <=> Filled("date_taken")
        /\ "iso" \in DOMAIN parts => parts["iso"] = IsoText
        /\ DOMAIN metadata = {} => DOMAIN parts = {}

C9_Witness ==
    /\ parts # NoParts
    /\ Present("lens") /\ metadata["lens"] = Str("")
    /\ Present("iso") /\ metadata["iso"] = Arr(<<100, 200, 400>>)
    /\ parts["iso"] = "ISO 100"
    /\ "lens" \notin DOMAIN parts

====
